---- MODULE Spec2Model ----
(***************************************************************************)
(* A model of the budget tracker of src/app.py: the BudgetTracker store    *)
(* (the in-memory list self.expenses and its backing JSON file) and the    *)
(* interactive menu loop of main().                                        *)
(*                                                                         *)
(* Representation.                                                         *)
(*   - A Python str is a sequence of one-character strings, compared by    *)
(*     code point as Python compares it.                                   *)
(*   - A Python float is [k, v]: k = "fin" with v the value in hundredths  *)
(*     (cents), or k = "inf" / "nan".  Finite arithmetic is exact: binary  *)
(*     rounding error of float addition is not modelled.                   *)
(*   - A datetime/date is <<year, month, day>>; the time of day is         *)
(*     dropped, since the program only ever uses the calendar date.        *)
(*   - An expense dict is the record [date, amount, category,              *)
(*     description].                                                       *)
(*   - The file is [exists, doc]; doc is the JSON array as json.dump       *)
(*     writes it: a sequence of objects, each a sequence of <<key, token>> *)
(*     members, a token being a string literal (escaped) or a number       *)
(*     literal (the characters of the float's repr).                       *)
(* End of input and signals at a prompt, and I/O errors while saving, are  *)
(* outside the model: the file a run starts from is absent or was written  *)
(* by an earlier run of the program.                                       *)
(***************************************************************************)
EXTENDS Integers, Sequences, FiniteSets, TLC

VARIABLES pc, expenses, file, now, out, lastInput

vars == <<pc, expenses, file, now, out, lastInput>>

(***************************************************************************)
(* Bounds of the model.                                                    *)
(***************************************************************************)
\* The store holds at most MaxLen records (the add action is capped there).
MaxLen == 2

(***************************************************************************)
(* Python str                                                              *)
(***************************************************************************)
DigitChars == <<"0", "1", "2", "3", "4", "5", "6", "7", "8", "9">>

\* ord(c) for the characters the model's strings are made of.
Ord(c) ==
    CASE c = " " -> 32
      [] c = "\"" -> 34
      [] c = "-" -> 45
      [] c = "." -> 46
      [] c = "0" -> 48
      [] c = "1" -> 49
      [] c = "2" -> 50
      [] c = "3" -> 51
      [] c = "4" -> 52
      [] c = "5" -> 53
      [] c = "6" -> 54
      [] c = "7" -> 55
      [] c = "8" -> 56
      [] c = "9" -> 57
      [] c = "B" -> 66
      [] c = "F" -> 70
      [] c = "I" -> 73
      [] c = "N" -> 78
      [] c = "\\" -> 92
      [] c = "a" -> 97
      [] c = "c" -> 99
      [] c = "d" -> 100
      [] c = "f" -> 102
      [] c = "h" -> 104
      [] c = "i" -> 105
      [] c = "l" -> 108
      [] c = "n" -> 110
      [] c = "o" -> 111
      [] c = "s" -> 115
      [] c = "t" -> 116
      [] c = "u" -> 117
      [] c = "x" -> 120
      [] c = "y" -> 121

\* s < t for two str: lexicographic by code point.
StrLess(s, t) ==
    \E i \in 1..(Len(t)) :
        /\ i <= Len(s) + 1
        /\ \A j \in 1..(i - 1) : s[j] = t[j]
        /\ \/ i = Len(s) + 1
           \/ Ord(s[i]) < Ord(t[i])

\* str.strip(): leading and trailing whitespace removed.
RECURSIVE LStrip(_)
LStrip(s) ==
    IF s # <<>> /\ Head(s) = " " THEN LStrip(Tail(s)) ELSE s

RECURSIVE RStrip(_)
RStrip(s) ==
    IF s # <<>> /\ s[Len(s)] = " " THEN RStrip(SubSeq(s, 1, Len(s) - 1)) ELSE s

Strip(s) == RStrip(LStrip(s))

\* s[:n]
Slice(s, n) == IF Len(s) <= n THEN s ELSE SubSeq(s, 1, n)

\* The decimal digits of n >= 0, zero-padded to at least width characters.
RECURSIVE Digits(_, _)
Digits(n, width) ==
    IF n < 10 /\ width <= 1
    THEN <<DigitChars[n + 1]>>
    ELSE Append(Digits(n \div 10, width - 1), DigitChars[(n % 10) + 1])

IsDigit(c) == \E i \in 1..10 : DigitChars[i] = c

DigitVal(c) == (CHOOSE i \in 1..10 : DigitChars[i] = c) - 1

\* int(s) for a str of decimal digits.
RECURSIVE ParseInt(_)
ParseInt(s) ==
    IF s = <<>> THEN 0
    ELSE 10 * ParseInt(SubSeq(s, 1, Len(s) - 1)) + DigitVal(s[Len(s)])

(***************************************************************************)
(* datetime: the proleptic Gregorian calendar                              *)
(***************************************************************************)
IsLeap(y) == y % 4 = 0 /\ (y % 100 # 0 \/ y % 400 = 0)

DaysInMonth(y, m) ==
    IF m = 2 THEN (IF IsLeap(y) THEN 29 ELSE 28)
    ELSE IF m \in {4, 6, 9, 11} THEN 30 ELSE 31

DaysBeforeYear(y) ==
    (y - 1) * 365 + ((y - 1) \div 4) - ((y - 1) \div 100) + ((y - 1) \div 400)

\* The days of a common year before the first of each month.
DaysBeforeMonthTable == <<0, 31, 59, 90, 120, 151, 181, 212, 243, 273, 304, 334>>

DaysBeforeMonth(y, m) ==
    DaysBeforeMonthTable[m] + (IF m > 2 /\ IsLeap(y) THEN 1 ELSE 0)

\* date.toordinal(): 0001-01-01 is day 1.
ToOrdinal(d) == DaysBeforeYear(d[1]) + DaysBeforeMonth(d[1], d[2]) + d[3]

\* The years the model's dates lie in.
Years == 2023..2024

\* date.fromordinal(n)
FromOrdinal(n) ==
    LET y == CHOOSE yy \in Years :
                 DaysBeforeYear(yy) < n /\ n <= DaysBeforeYear(yy + 1)
        r == n - DaysBeforeYear(y)
        m == CHOOSE mm \in 1..12 :
                 /\ DaysBeforeMonth(y, mm) < r
                 /\ r <= DaysBeforeMonth(y, mm) + DaysInMonth(y, mm)
    IN  <<y, m, r - DaysBeforeMonth(y, m)>>

\* date.weekday(): Monday is 0, Sunday is 6.
Weekday(d) == (ToOrdinal(d) + 6) % 7

\* d + timedelta(days=k)
PlusDays(d, k) == FromOrdinal(ToOrdinal(d) + k)

\* d1 <= d2 for two dates: compared as (year, month, day).
DateLeq(d1, d2) ==
    \/ d1[1] < d2[1]
    \/ d1[1] = d2[1] /\ d1[2] < d2[2]
    \/ d1[1] = d2[1] /\ d1[2] = d2[2] /\ d1[3] <= d2[3]

\* d.strftime('%Y-%m-%d')
Strftime(d) == Digits(d[1], 4) \o <<"-">> \o Digits(d[2], 2) \o <<"-">> \o Digits(d[3], 2)

\* Whether datetime.strptime(s, '%Y-%m-%d') accepts s (a four-digit year, then
\* month and day of two digits as the program writes them, naming a real day).
StrptimeOk(s) ==
    /\ Len(s) = 10
    /\ s[5] = "-" /\ s[8] = "-"
    /\ \A i \in {1, 2, 3, 4, 6, 7, 9, 10} : IsDigit(s[i])
    /\ LET y == ParseInt(SubSeq(s, 1, 4))
           m == ParseInt(SubSeq(s, 6, 7))
           d == ParseInt(SubSeq(s, 9, 10))
       IN  y >= 1 /\ m \in 1..12 /\ d >= 1 /\ d <= DaysInMonth(y, m)

\* datetime.strptime(s, '%Y-%m-%d').date()
Strptime(s) ==
    <<ParseInt(SubSeq(s, 1, 4)), ParseInt(SubSeq(s, 6, 7)), ParseInt(SubSeq(s, 9, 10))>>

(***************************************************************************)
(* Python float                                                            *)
(***************************************************************************)
Fin(v) == [k |-> "fin", v |-> v]

Inf == [k |-> "inf", v |-> 0]

NegInf == [k |-> "ninf", v |-> 0]

NaN == [k |-> "nan", v |-> 0]

IsFinite(a) == a.k = "fin"

\* a + b
FloatAdd(a, b) ==
    IF a.k = "nan" \/ b.k = "nan" THEN NaN
    ELSE IF a.k = "fin" /\ b.k = "fin" THEN Fin(a.v + b.v)
    ELSE IF a.k = "fin" THEN b
    ELSE IF b.k = "fin" THEN a
    ELSE IF a.k = b.k THEN a
    ELSE NaN

\* Whether body is an unsigned decimal literal: digits with at most one point
\* and at least one digit (at most two fractional digits, the model's cents).
IsDecimal(body) ==
    /\ body # <<>>
    /\ \A i \in 1..Len(body) : IsDigit(body[i]) \/ body[i] = "."
    /\ Cardinality({i \in 1..Len(body) : body[i] = "."}) <= 1
    /\ \E i \in 1..Len(body) : IsDigit(body[i])
    /\ \A i \in 1..Len(body) : body[i] = "." => Len(body) - i <= 2

\* The value in cents of an unsigned decimal literal.
DecimalCents(body) ==
    LET dots == {i \in 1..Len(body) : body[i] = "."}
        dot == IF dots = {} THEN Len(body) + 1 ELSE CHOOSE i \in dots : TRUE
        whole == SubSeq(body, 1, dot - 1)
        frac == SubSeq(body, dot + 1, Len(body))
    IN  100 * ParseInt(whole)
          + (IF Len(frac) = 1 THEN 10 * ParseInt(frac) ELSE ParseInt(frac))

\* float(text): [ok, val]; ok = FALSE stands for ValueError.
PyFloat(text) ==
    LET s == Strip(text)
        signed == s # <<>> /\ Head(s) \in {"-", "+"}
        neg == s # <<>> /\ Head(s) = "-"
        body == IF signed THEN Tail(s) ELSE s
    IN  IF body = <<"i", "n", "f">>
        THEN [ok |-> TRUE, val |-> IF neg THEN NegInf ELSE Inf]
        ELSE IF body = <<"n", "a", "n">>
        THEN [ok |-> TRUE, val |-> NaN]
        ELSE IF IsDecimal(body)
        THEN [ok |-> TRUE,
              val |-> Fin(IF neg THEN 0 - DecimalCents(body) ELSE DecimalCents(body))]
        ELSE [ok |-> FALSE, val |-> Fin(0)]

\* float.__repr__ of a finite float: the shortest decimal, with a fraction.
FiniteRepr(v) ==
    LET mag == IF v < 0 THEN 0 - v ELSE v
        f == mag % 100
    IN  (IF v < 0 THEN <<"-">> ELSE <<>>)
          \o Digits(mag \div 100, 1) \o <<".">>
          \o (IF f % 10 = 0 THEN Digits(f \div 10, 1) ELSE Digits(f, 2))

(***************************************************************************)
(* json.dump / json.load                                                   *)
(***************************************************************************)
\* The encoder's escaping of a str (quote and backslash).
RECURSIVE JsonEscape(_)
JsonEscape(s) ==
    IF s = <<>> THEN <<>>
    ELSE (IF Head(s) \in {"\"", "\\"} THEN <<"\\", Head(s)>> ELSE <<Head(s)>>)
           \o JsonEscape(Tail(s))

\* The decoder's reading of a string literal's characters.
RECURSIVE JsonUnescape(_)
JsonUnescape(s) ==
    IF s = <<>> THEN <<>>
    ELSE IF Head(s) = "\\" /\ Len(s) >= 2
    THEN <<s[2]>> \o JsonUnescape(SubSeq(s, 3, Len(s)))
    ELSE <<Head(s)>> \o JsonUnescape(Tail(s))

JsonEncodeStr(s) == [t |-> "string", s |-> JsonEscape(s)]

\* An encoder that writes a finite amount without its fraction.
JsonEncodeFloatTruncated(a) ==
    [t |-> "number",
     s |-> CASE a.k = "nan" -> <<"N", "a", "N">>
             [] a.k = "inf" -> <<"I", "n", "f", "i", "n", "i", "t", "y">>
             [] a.k = "ninf" -> <<"-", "I", "n", "f", "i", "n", "i", "t", "y">>
             [] a.k = "fin" -> FiniteRepr(a.v - (a.v % 100))]

\* The encoder's floatstr: repr, and NaN / Infinity / -Infinity (allow_nan).
JsonEncodeFloat(a) ==
    [t |-> "number",
     s |-> CASE a.k = "nan" -> <<"N", "a", "N">>
             [] a.k = "inf" -> <<"I", "n", "f", "i", "n", "i", "t", "y">>
             [] a.k = "ninf" -> <<"-", "I", "n", "f", "i", "n", "i", "t", "y">>
             [] a.k = "fin" -> FiniteRepr(a.v)]

\* The decoder's value of a token.
JsonDecodeValue(tok) ==
    IF tok.t = "string" THEN JsonUnescape(tok.s)
    ELSE IF tok.s = <<"N", "a", "N">> THEN NaN
    ELSE IF tok.s = <<"I", "n", "f", "i", "n", "i", "t", "y">> THEN Inf
    ELSE IF tok.s = <<"-", "I", "n", "f", "i", "n", "i", "t", "y">> THEN NegInf
    ELSE PyFloat(tok.s).val

\* A dict is written as its members in insertion order.
JsonEncodeDict(e) ==
    << <<"date", JsonEncodeStr(e.date)>>,
       <<"amount", JsonEncodeFloat(e.amount)>>,
       <<"category", JsonEncodeStr(e.category)>>,
       <<"description", JsonEncodeStr(e.description)>> >>

\* The value of key in a JSON object (the last member of that name).
JsonMember(obj, key) ==
    LET i == CHOOSE j \in 1..Len(obj) :
                 /\ obj[j][1] = key
                 /\ \A l \in (j + 1)..Len(obj) : obj[l][1] # key
    IN  JsonDecodeValue(obj[i][2])

JsonDecodeDict(obj) ==
    [date |-> JsonMember(obj, "date"),
     amount |-> JsonMember(obj, "amount"),
     category |-> JsonMember(obj, "category"),
     description |-> JsonMember(obj, "description")]

\* json.dump(list, f, indent=2)
JsonDump(exps) == [i \in 1..Len(exps) |-> JsonEncodeDict(exps[i])]

\* json.load(f)
JsonLoad(doc) == [i \in 1..Len(doc) |-> JsonDecodeDict(doc[i])]

(***************************************************************************)
(* What an action prints: the message, and the data it shows.              *)
(***************************************************************************)
NoOutput ==
    [msg |-> "menu", rows |-> <<>>, order |-> <<>>, total |-> Fin(0),
     window |-> <<>>, amount |-> Fin(0), category |-> <<>>]

\* What the last menu step read from the console.
NoInput == [choice |-> <<>>, amount |-> <<>>, category |-> <<>>, description |-> <<>>]

(***************************************************************************)
(* class BudgetTracker                                                     *)
(***************************************************************************)
\* load_expenses: the list read from the file f, or [] when it does not exist.
load_expenses(f) == IF f.exists THEN JsonLoad(f.doc) ELSE <<>>

\* save_expenses: the file after open(filename, 'w') and json.dump of exps.
save_expenses(exps) == [exists |-> TRUE, doc |-> JsonDump(exps)]

\* add_expense dating the record in UTC, a day ahead of the local date.
add_expense_utc_date(exps, today, amount, category, description) ==
    LET expense == [date |-> Strftime(PlusDays(today, 1)),
                    amount |-> amount,
                    category |-> category,
                    description |-> description]
        appended == Append(exps, expense)
    IN  [expenses |-> appended,
         file |-> save_expenses(appended),
         out |-> [NoOutput EXCEPT !.msg = "added",
                                  !.amount = amount,
                                  !.category = category]]

\* add_expense: the store, the file and the output after the call.
add_expense(exps, today, amount, category, description) ==
    LET expense == [date |-> Strftime(today),
                    amount |-> amount,
                    category |-> category,
                    description |-> description]
        appended == Append(exps, expense)
    IN  [expenses |-> appended,
         file |-> save_expenses(appended),
         out |-> [NoOutput EXCEPT !.msg = "added",
                                  !.amount = amount,
                                  !.category = category]]

\* A week that starts on Sunday.
get_week_range_from_sunday(today) ==
    LET start == PlusDays(today, 0 - ((Weekday(today) + 1) % 7))
        end == PlusDays(start, 6)
    IN  <<start, end>>

\* get_week_range: <<start, end>> of the week of today.
get_week_range(today) ==
    LET start == PlusDays(today, 0 - Weekday(today))
        end == PlusDays(start, 6)
    IN  <<start, end>>

\* category_totals after the loop over the week's expenses (a defaultdict(float)).
RECURSIVE CategoryTotals(_)
CategoryTotals(weekly) ==
    IF weekly = <<>> THEN <<>>
    ELSE LET prev == CategoryTotals(SubSeq(weekly, 1, Len(weekly) - 1))
             e == weekly[Len(weekly)]
             old == IF e.category \in DOMAIN prev THEN prev[e.category] ELSE Fin(0)
         IN  [c \in (DOMAIN prev) \cup {e.category} |->
                 IF c = e.category THEN FloatAdd(old, e.amount) ELSE prev[c]]

\* sorted(keys): the strings of S in ascending order.
RECURSIVE SortedStrs(_)
SortedStrs(S) ==
    IF S = {} THEN <<>>
    ELSE LET least == CHOOSE x \in S : \A y \in S \ {x} : StrLess(x, y)
         IN  <<least>> \o SortedStrs(S \ {least})

\* total after the display loop over rows of <<category, amount>>.
RECURSIVE RunningTotal(_)
RunningTotal(rows) ==
    IF rows = <<>> THEN Fin(0)
    ELSE FloatAdd(RunningTotal(SubSeq(rows, 1, Len(rows) - 1)), rows[Len(rows)][2])

\* weekly_summary with its emptiness test on the whole store.
weekly_summary_tests_store(exps, today) ==
    LET range == get_week_range(today)
        InWeek(e) == /\ DateLeq(range[1], Strptime(e.date))
                     /\ DateLeq(Strptime(e.date), range[2])
        weekly_expenses == SelectSeq(exps, InWeek)
        totals == CategoryTotals(weekly_expenses)
        cats == SortedStrs(DOMAIN totals)
        rows == [i \in 1..Len(cats) |-> <<cats[i], totals[cats[i]]>>]
    IN  [expenses |-> exps,
         out |-> IF exps = <<>>
                 THEN [NoOutput EXCEPT !.msg = "no_expenses_this_week",
                                       !.window = range]
                 ELSE [NoOutput EXCEPT !.msg = "weekly_summary",
                                       !.window = range,
                                       !.rows = rows,
                                       !.total = RunningTotal(rows)]]

\* weekly_summary: the store and the output after the call.
weekly_summary(exps, today) ==
    LET range == get_week_range(today)
        InWeek(e) == /\ DateLeq(range[1], Strptime(e.date))
                     /\ DateLeq(Strptime(e.date), range[2])
        weekly_expenses == SelectSeq(exps, InWeek)
        totals == CategoryTotals(weekly_expenses)
        cats == SortedStrs(DOMAIN totals)
        rows == [i \in 1..Len(cats) |-> <<cats[i], totals[cats[i]]>>]
    IN  [expenses |-> exps,
         out |-> IF weekly_expenses = <<>>
                 THEN [NoOutput EXCEPT !.msg = "no_expenses_this_week",
                                       !.window = range]
                 ELSE [NoOutput EXCEPT !.msg = "weekly_summary",
                                       !.window = range,
                                       !.rows = rows,
                                       !.total = RunningTotal(rows)]]

\* An ascending stable sort, reversed: records of one date come out in the
\* reverse of their order in the store.
RECURSIVE SortedByDateDescReversed(_, _)
SortedByDateDescReversed(exps, n) ==
    IF n = 0 THEN <<>>
    ELSE LET prev == SortedByDateDescReversed(exps, n - 1)
             p == Cardinality({i \in 1..Len(prev) :
                      StrLess(exps[n].date, exps[prev[i]].date)})
         IN  SubSeq(prev, 1, p) \o <<n>> \o SubSeq(prev, p + 1, Len(prev))

\* sorted(exps, key=lambda x: x['date'], reverse=True), as the indices of the
\* first n records in their sorted order (a stable sort: a record goes after
\* every earlier record whose key is not smaller).
RECURSIVE SortedByDateDesc(_, _)
SortedByDateDesc(exps, n) ==
    IF n = 0 THEN <<>>
    ELSE LET prev == SortedByDateDesc(exps, n - 1)
             p == Cardinality({i \in 1..Len(prev) :
                      ~StrLess(exps[prev[i]].date, exps[n].date)})
         IN  SubSeq(prev, 1, p) \o <<n>> \o SubSeq(prev, p + 1, Len(prev))

\* The width the description is cut to in a row of the list.
DescriptionWidth == 28

\* list_all_expenses sorting self.expenses in place (list.sort) before printing.
list_all_expenses_in_place(exps) ==
    LET order == SortedByDateDesc(exps, Len(exps))
        sorted == [i \in 1..Len(order) |-> exps[order[i]]]
        Row(e) == [date |-> e.date, category |-> e.category, amount |-> e.amount,
                   description |-> Slice(e.description, DescriptionWidth)]
    IN  [expenses |-> sorted,
         out |-> IF exps = <<>>
                 THEN [NoOutput EXCEPT !.msg = "no_expenses_yet"]
                 ELSE [NoOutput EXCEPT !.msg = "list",
                                       !.order = order,
                                       !.rows = [i \in 1..Len(order) |-> Row(sorted[i])]]]

\* list_all_expenses: the store and the output after the call.
list_all_expenses(exps) ==
    LET order == SortedByDateDesc(exps, Len(exps))
        Row(e) == [date |-> e.date, category |-> e.category, amount |-> e.amount,
                   description |-> Slice(e.description, DescriptionWidth)]
    IN  [expenses |-> exps,
         out |-> IF exps = <<>>
                 THEN [NoOutput EXCEPT !.msg = "no_expenses_yet"]
                 ELSE [NoOutput EXCEPT !.msg = "list",
                                       !.order = order,
                                       !.rows = [i \in 1..Len(order) |-> Row(exps[order[i]])]]]

(***************************************************************************)
(* The console and the clock                                               *)
(***************************************************************************)
Food == <<"F", "o", "o", "d">>

Bus == <<"B", "u", "s">>

LongDescription == [i \in 1..30 |-> "x"]

\* What the user may type at the menu prompt.
ChoiceTexts ==
    { <<"1">>, <<" ", "2", " ">>, <<"3">>, <<"4">>, <<"5">>, <<>> }

\* What the user may type at the amount, category and description prompts.
AddInputs ==
    { << <<"1", "2", ".", "5", "0">>, Food, <<>> >>,
      << <<"7">>, Food, <<"l", "u", "n", "c", "h">> >>,
      << <<"-", "5">>, <<" ", "B", "u", "s", " ">>, LongDescription >>,
      << <<"i", "n", "f">>, Bus, <<"a", "\"", "b">> >>,
      << <<"n", "a", "n">>, Food, <<>> >>,
      << <<"a", "b", "c">>, Food, <<>> >>,
      << <<>>, Bus, <<>> >> }

\* The local dates of the model's clock: a Sunday, and the Monday and Tuesday
\* of the next week, month and year.
FirstDate == <<2023, 12, 31>>

ClockDates == {FirstDate, <<2024, 1, 1>>, <<2024, 1, 2>>}

\* The stores an earlier run can have left in the file (records that meet the
\* data model: a finite, non-negative amount).
PriorStores ==
    {<<>>} \cup
    { add_expense(<<>>, FirstDate, PyFloat(t[1]).val, Strip(t[2]), Strip(t[3])).expenses :
        t \in {u \in AddInputs : /\ PyFloat(u[1]).ok
                                 /\ IsFinite(PyFloat(u[1]).val)
                                 /\ PyFloat(u[1]).val.v >= 0} }

InitialFiles ==
    {[exists |-> FALSE, doc |-> <<>>]} \cup {save_expenses(s) : s \in PriorStores}

(***************************************************************************)
(* main(): construction, then the menu loop                                *)
(***************************************************************************)
Init ==
    /\ file \in InitialFiles
    /\ expenses = load_expenses(file)
    /\ now \in ClockDates
    /\ pc = "menu"
    /\ out = NoOutput
    /\ lastInput = NoInput

\* A ValueError that is not caught: the process ends.
InvalidAmountTerminates(amountText) ==
    /\ out' = [NoOutput EXCEPT !.msg = "invalid_amount"]
    /\ lastInput' = [NoInput EXCEPT !.choice = <<"1">>, !.amount = amountText]
    /\ pc' = "done"
    /\ UNCHANGED <<expenses, file, now>>

\* The except ValueError branch of choice 1.
InvalidAmount(amountText) ==
    /\ out' = [NoOutput EXCEPT !.msg = "invalid_amount"]
    /\ lastInput' = [NoInput EXCEPT !.choice = <<"1">>, !.amount = amountText]
    /\ pc' = "menu"
    /\ UNCHANGED <<expenses, file, now>>

\* Choice 1: the three prompts, then add_expense.
Choice1(choiceText, amountText, categoryText, descriptionText) ==
    /\ pc = "menu"
    /\ Strip(choiceText) = <<"1">>
    /\ LET parsed == PyFloat(amountText)
       IN  IF parsed.ok
           THEN /\ Len(expenses) < MaxLen
                /\ LET r == add_expense(expenses, now, parsed.val,
                                        Strip(categoryText), Strip(descriptionText))
                   IN  /\ expenses' = r.expenses
                       /\ file' = r.file
                       /\ out' = r.out
                /\ lastInput' = [choice |-> <<"1">>, amount |-> amountText,
                                 category |-> categoryText,
                                 description |-> descriptionText]
                /\ pc' = "menu"
                /\ UNCHANGED now
           ELSE InvalidAmount(amountText)

\* Choice 2: weekly_summary.
Choice2(choiceText) ==
    /\ pc = "menu"
    /\ Strip(choiceText) = <<"2">>
    /\ LET r == weekly_summary(expenses, now)
       IN  /\ expenses' = r.expenses
           /\ out' = r.out
    /\ lastInput' = [NoInput EXCEPT !.choice = <<"2">>]
    /\ pc' = "menu"
    /\ UNCHANGED <<file, now>>

\* Choice 3: list_all_expenses.
Choice3(choiceText) ==
    /\ pc = "menu"
    /\ Strip(choiceText) = <<"3">>
    /\ LET r == list_all_expenses(expenses)
       IN  /\ expenses' = r.expenses
           /\ out' = r.out
    /\ lastInput' = [NoInput EXCEPT !.choice = <<"3">>]
    /\ pc' = "menu"
    /\ UNCHANGED <<file, now>>

\* Choice 4 without its break.
Choice4NoBreak(choiceText) ==
    /\ pc = "menu"
    /\ Strip(choiceText) = <<"4">>
    /\ out' = [NoOutput EXCEPT !.msg = "goodbye"]
    /\ lastInput' = [NoInput EXCEPT !.choice = <<"4">>]
    /\ pc' = "menu"
    /\ UNCHANGED <<expenses, file, now>>

\* Choice 4: break.
Choice4(choiceText) ==
    /\ pc = "menu"
    /\ Strip(choiceText) = <<"4">>
    /\ out' = [NoOutput EXCEPT !.msg = "goodbye"]
    /\ lastInput' = [NoInput EXCEPT !.choice = <<"4">>]
    /\ pc' = "done"
    /\ UNCHANGED <<expenses, file, now>>

\* Any other choice: the else branch.
InvalidChoice(choiceText) ==
    /\ pc = "menu"
    /\ Strip(choiceText) \notin {<<"1">>, <<"2">>, <<"3">>, <<"4">>}
    /\ out' = [NoOutput EXCEPT !.msg = "invalid_option"]
    /\ lastInput' = [NoInput EXCEPT !.choice = Strip(choiceText)]
    /\ pc' = "menu"
    /\ UNCHANGED <<expenses, file, now>>

\* The local date changes (midnight passes, or the clock is set).
Tick ==
    /\ pc = "menu"
    /\ now' \in ClockDates \ {now}
    /\ UNCHANGED <<pc, expenses, file, out, lastInput>>

Next ==
    \/ \E c \in ChoiceTexts, t \in AddInputs : Choice1(c, t[1], t[2], t[3])
    \/ \E c \in ChoiceTexts : Choice2(c)
    \/ \E c \in ChoiceTexts : Choice3(c)
    \/ \E c \in ChoiceTexts : Choice4(c)
    \/ \E c \in ChoiceTexts : InvalidChoice(c)
    \/ Tick

Spec == Init /\ [][Next]_vars

(***************************************************************************)
(* Vocabulary of the properties, stated without the program's operators    *)
(* for the week and the sums.                                              *)
(***************************************************************************)
\* The step is the menu action that read this choice (the clock did not move).
IsMenuStep(choice) == pc = "menu" /\ now' = now /\ lastInput'.choice = choice

\* The ordinal of the Monday of the week of ordinal t (day 1 was a Monday).
MondayOrdinal(t) == CHOOSE m \in (t - 6)..t : m % 7 = 1

\* Whether the record's date lies in the Monday-to-Sunday week of today.
InWeekOf(e, today) ==
    LET m == MondayOrdinal(ToOrdinal(today))
        d == ToOrdinal(Strptime(e.date))
    IN  m <= d /\ d <= m + 6

\* The sum of the amounts of the records of exps at the indices I.
RECURSIVE SumAt(_, _)
SumAt(exps, I) ==
    IF I = {} THEN Fin(0)
    ELSE LET i == CHOOSE j \in I : \A l \in I : l <= j
         IN  FloatAdd(SumAt(exps, I \ {i}), exps[i].amount)

WeekIndices(exps, today) == {i \in 1..Len(exps) : InWeekOf(exps[i], today)}

IsPrefix(s, t) == Len(s) <= Len(t) /\ SubSeq(t, 1, Len(s)) = s

\* An amount the data model allows: a finite, non-negative number.
IsValidAmount(a) == IsFinite(a) /\ a.v >= 0

(***************************************************************************)
(* C1: add_expense on a store whose file is absent or holds the empty      *)
(* array, then load_expenses of the file, gives exactly one record: the    *)
(* amount, category and description passed, dated with the local date at   *)
(* the time of the call.                                                   *)
(***************************************************************************)
C1_AppendThenLoad ==
    [][(/\ IsMenuStep(<<"1">>)
        /\ ~file.exists \/ file.doc = <<>>
        /\ PyFloat(lastInput'.amount).ok
        /\ IsValidAmount(PyFloat(lastInput'.amount).val))
       => LET loaded == load_expenses(file')
          IN  /\ Len(loaded) = 1
              /\ loaded[1].amount = PyFloat(lastInput'.amount).val
              /\ loaded[1].category = Strip(lastInput'.category)
              /\ loaded[1].description = Strip(lastInput'.description)
              /\ StrptimeOk(loaded[1].date)
              /\ Strptime(loaded[1].date) = now]_vars

C1_Witness ==
    /\ out.msg = "added"
    /\ lastInput.choice = <<"1">>
    /\ Len(expenses) = 1
    /\ IsValidAmount(expenses[1].amount)
    /\ expenses[1].description # <<>>
    /\ file.exists /\ Len(file.doc) = 1

(***************************************************************************)
(* C2: the file, reloaded, is the in-memory list: same length, same order, *)
(* same fields; once written it holds the whole list.                      *)
(***************************************************************************)
C2_RoundTrip ==
    /\ load_expenses(file) = expenses
    /\ file.exists => Len(file.doc) = Len(expenses)

C2_Witness ==
    /\ out.msg = "added"
    /\ Len(expenses) = 2
    /\ expenses[1] # expenses[2]
    /\ \E i \in 1..2 : ~IsFinite(expenses[i].amount)
    /\ \E i \in 1..2 : \E j \in 1..Len(expenses[i].description) :
           expenses[i].description[j] = "\""

(***************************************************************************)
(* C3: the weekly summary's window is the Monday-to-Sunday week of today;  *)
(* its total is the sum of the amounts of exactly the records dated in     *)
(* that week, and each category's row is the sum of that category's        *)
(* records of the week.                                                    *)
(***************************************************************************)
C3_WeeklyTotals ==
    [][IsMenuStep(<<"2">>)
       => LET W == WeekIndices(expenses, now)
              m == MondayOrdinal(ToOrdinal(now))
              rows == out'.rows
          IN  /\ out'.window = <<FromOrdinal(m), FromOrdinal(m + 6)>>
              /\ W # {} => out'.total = SumAt(expenses, W)
              /\ {rows[i][1] : i \in 1..Len(rows)} = {expenses[i].category : i \in W}
              /\ \A i, j \in 1..Len(rows) : rows[i][1] = rows[j][1] => i = j
              /\ \A i \in 1..Len(rows) :
                     rows[i][2] = SumAt(expenses,
                                        {j \in W : expenses[j].category = rows[i][1]})]_vars

C3_Witness ==
    /\ out.msg = "weekly_summary"
    /\ lastInput.choice = <<"2">>
    /\ Len(expenses) = 2
    /\ \E i \in 1..2 : ~InWeekOf(expenses[i], out.window[1])
    /\ \E i \in 1..2 : InWeekOf(expenses[i], out.window[1])
                       /\ out.total = expenses[i].amount

(***************************************************************************)
(* C4: the list shows one row per record, by date descending, records of   *)
(* the same date in their order in the store.                              *)
(***************************************************************************)
C4_ListOrder ==
    out.msg = "list"
    => LET o == out.order
           n == Len(expenses)
           Day(i) == ToOrdinal(Strptime(expenses[o[i]].date))
       IN  /\ n > 0
           /\ Len(o) = n /\ Len(out.rows) = n
           /\ {o[i] : i \in 1..n} = 1..n
           /\ \A i \in 1..n :
                  /\ out.rows[i].date = expenses[o[i]].date
                  /\ out.rows[i].category = expenses[o[i]].category
                  /\ out.rows[i].amount = expenses[o[i]].amount
           /\ \A i, j \in 1..n :
                  i < j => /\ Day(i) >= Day(j)
                           /\ Day(i) = Day(j) => o[i] < o[j]

C4_Witness ==
    /\ out.msg = "list"
    /\ Len(expenses) = 2
    /\ expenses[1].date = expenses[2].date
    /\ expenses[1] # expenses[2]
    /\ out.rows[1].amount = expenses[1].amount

(***************************************************************************)
(* C5: a non-numeric amount at choice 1 leaves the list and the file as    *)
(* they were, shows the error, and the loop is back at the menu.           *)
(***************************************************************************)
C5_InvalidAmountKeepsStore ==
    [][(IsMenuStep(<<"1">>) /\ ~PyFloat(lastInput'.amount).ok)
       => /\ expenses' = expenses
          /\ file' = file
          /\ out'.msg = "invalid_amount"
          /\ pc' = "menu"]_vars

C5_Witness ==
    /\ out.msg = "invalid_amount"
    /\ ~PyFloat(lastInput.amount).ok
    /\ lastInput.amount # <<>>
    /\ expenses # <<>>
    /\ pc = "menu"

(***************************************************************************)
(* C6: an amount that is not finite (infinity, NaN) is refused: nothing is *)
(* added, the file is not rewritten, the error is shown and the loop is    *)
(* back at the menu.                                                       *)
(***************************************************************************)
C6_NonFiniteRejected ==
    [][(/\ IsMenuStep(<<"1">>)
        /\ PyFloat(lastInput'.amount).ok
        /\ ~IsFinite(PyFloat(lastInput'.amount).val))
       => /\ expenses' = expenses
          /\ file' = file
          /\ out'.msg = "invalid_amount"
          /\ pc' = "menu"]_vars

(***************************************************************************)
(* C7: every record of the store, and of the file, has an amount that is a *)
(* non-negative number and a date that parses as a calendar date.          *)
(***************************************************************************)
C7_RecordsWellFormed ==
    \A exps \in {expenses, load_expenses(file)} :
        \A i \in 1..Len(exps) :
            /\ exps[i].amount.k \in {"fin", "inf"}
            /\ exps[i].amount.v >= 0
            /\ StrptimeOk(exps[i].date)

(***************************************************************************)
(* C8: the weekly summary prints its "no expenses" message exactly when no *)
(* record is dated in the week of today, and the list prints its "none     *)
(* recorded" message exactly when the store is empty; an empty message     *)
(* comes with no rows.                                                     *)
(***************************************************************************)
C8_EmptyMessages ==
    [][/\ IsMenuStep(<<"2">>)
          => /\ out'.msg \in {"no_expenses_this_week", "weekly_summary"}
             /\ out'.msg = "no_expenses_this_week"
                    <=> WeekIndices(expenses, now) = {}
             /\ out'.msg = "no_expenses_this_week" => out'.rows = <<>>
       /\ IsMenuStep(<<"3">>)
          => /\ out'.msg \in {"no_expenses_yet", "list"}
             /\ out'.msg = "no_expenses_yet" <=> expenses = <<>>
             /\ out'.msg = "no_expenses_yet" => out'.rows = <<>>]_vars

C8_Witness ==
    /\ out.msg = "no_expenses_this_week"
    /\ lastInput.choice = <<"2">>
    /\ expenses # <<>>

(***************************************************************************)
(* C9: every menu step ends back at the menu, except choice 4, which ends  *)
(* the loop; the loop ends on choice 4 only; after it nothing runs; an     *)
(* invalid choice only prints the error.                                   *)
(***************************************************************************)
C9_MenuLoop ==
    [][/\ pc' \in {"menu", "done"}
       /\ pc = "done" => UNCHANGED vars
       /\ (pc = "menu" /\ pc' = "done")
          => lastInput'.choice = <<"4">> /\ out'.msg = "goodbye"
       /\ IsMenuStep(<<"4">>) => pc' = "done"
       /\ (pc = "menu" /\ lastInput'.choice # <<"4">>) => pc' = "menu"
       /\ (/\ pc = "menu" /\ now' = now
           /\ lastInput'.choice \notin {<<"1">>, <<"2">>, <<"3">>, <<"4">>})
          => /\ out'.msg = "invalid_option"
             /\ expenses' = expenses
             /\ file' = file]_vars

C9_Witness ==
    /\ pc = "done"
    /\ out.msg = "goodbye"
    /\ Len(expenses) = 2
    /\ file.exists

(***************************************************************************)
(* C10: in every step the old list is a prefix of the new one; it grows    *)
(* only by a successful add, by one record at the end, written to the      *)
(* file; the summary, the list and an invalid choice change neither the    *)
(* list nor the file.                                                      *)
(***************************************************************************)
C10_AppendOnly ==
    [][/\ IsPrefix(expenses, expenses')
       /\ expenses' # expenses
          => /\ Len(expenses') = Len(expenses) + 1
             /\ IsMenuStep(<<"1">>)
             /\ out'.msg = "added"
             /\ load_expenses(file') = expenses'
       /\ lastInput'.choice # <<"1">>
          => expenses' = expenses /\ file' = file]_vars

C10_Witness ==
    /\ out.msg = "list"
    /\ Len(expenses) = 2
    /\ out.order = <<2, 1>>

====
